---- MODULE Spec2Model ----
(***************************************************************************)
(* TouchVisual: the per-frame effect pipeline (engine.py), its five nodes  *)
(* (nodes.py) and the controller handlers of VisualApp (app.py) that       *)
(* toggle nodes and change their parameters between frames.                *)
(*                                                                         *)
(* A frame is modelled by what the nodes look at: whether it is None, its  *)
(* height and width (size == 0 when either is 0) and the marks the nodes   *)
(* have left on it.  Image content is left to the environment: the         *)
(* contours a background model finds in a frame and the verdict of the     *)
(* native tracker are inputs of the process step.                          *)
(***************************************************************************)
EXTENDS Integers, Sequences, FiniteSets, TLC

\* ------------------------------------------------------------------ bounds
\* Largest trail length the controller's slider offers in the model
\* (the slider of app.py runs from 5 to 50; the model scales it to 1..MaxTrailLength).
MaxTrailLength == 2
\* A background model counts the frames it has absorbed up to this cap.
MaxBgFrames == 1

\* ------------------------------------------------------------- constants
\* nodes.py:129  "if cv2.contourArea(largest_contour) > 500"
DetectAreaThreshold == 500
\* nodes.py:170  "if distance < 100"
ContinuityDistance == 100

\* ---------------------------------------------------------------- values
NoBox == <<>>
NoTracker == "None"
NoBuffer == <<>>
NoModel == -1
NoError == "none"

\* The pipeline order of update_engine.
NodeOrder == <<"feedback", "glow", "rgb_split", "object_tracking", "blob_tracking">>
NodeNames == {NodeOrder[i] : i \in 1..Len(NodeOrder)}

\* Qt check states handed to the toggle handlers.
Checked == 2
Unchecked == 0

\* Frame shapes fed to the pipeline: a zero-size one, a pair that numpy
\* broadcasts (1 x 2 against 2 x 2) and a pair it does not (2 x 2 against 2 x 3).
FrameShapes == {<<0, 2>>, <<1, 2>>, <<2, 2>>, <<2, 3>>}
NoneFrame == [isNone |-> TRUE, h |-> 0, w |-> 0, marks |-> <<>>]
MkFrame(shape) == [isNone |-> FALSE, h |-> shape[1], w |-> shape[2], marks |-> <<>>]
Frames == {NoneFrame} \cup {MkFrame(s) : s \in FrameShapes}

\* Mutant: the size test is left out.
FrameInvalid_NoneOnly(frame) == frame.isNone

\* "frame is None or frame.size == 0"
FrameInvalid(frame) == frame.isNone \/ frame.h * frame.w = 0

\* Bounding boxes (x, y, w, h) a detector or tracker can report; their
\* centres are farther apart than ContinuityDistance.
BoxA == <<0, 0, 10, 10>>
BoxB == <<200, 0, 11, 11>>
Boxes == {BoxA, BoxB}
\* What a failed tracker.update hands back as its box.
FailBox == <<0, 0, 0, 0>>

\* center = (x + w // 2, y + h // 2)
Center(bbox) == <<bbox[1] + bbox[3] \div 2, bbox[2] + bbox[4] \div 2>>

\* A contour as the detectors see it: its area and its bounding rectangle.
Contour(area, box) == [area |-> area, box |-> box]
\* The contour lists findContours can return for a frame, in the model.
ContourInputs ==
    { <<>>,
      <<Contour(DetectAreaThreshold, BoxA)>>,
      <<Contour(DetectAreaThreshold + 1, BoxA)>>,
      <<Contour(DetectAreaThreshold + 1, BoxA), Contour(DetectAreaThreshold + 2, BoxB)>>,
      <<Contour(DetectAreaThreshold + 2, BoxB), Contour(DetectAreaThreshold + 1, BoxA)>>,
      <<Contour(DetectAreaThreshold - 1, BoxA), Contour(DetectAreaThreshold + 1, BoxB)>> }

\* Errors the OpenCV binding raises from tracker construction, init and update.
TrackerErrors == {"AttributeError", "cv2.error"}

Min(a, b) == IF a < b THEN a ELSE b

\* ------------------------------------------------------------ FeedbackNode
\* FeedbackNode.__init__(decay): decay is kept in hundredths, the unit of
\* the Feedback slider (update_feedback divides by 100.0); no buffer yet.
FeedbackNodeInit(decay) == [decay |-> decay, buffer |-> NoBuffer]

\* VisualApp passes FeedbackNode(0.9).
DefaultDecay == 90

\* numpy broadcasting of two (h, w, 3) arrays: each dimension equal, or one of them 1.
Broadcastable(a, b) ==
    /\ (a[1] = b[1] \/ a[1] = 1 \/ b[1] = 1)
    /\ (a[2] = b[2] \/ a[2] = 1 \/ b[2] = 1)

BroadcastShape(a, b) ==
    << IF a[1] = 1 THEN b[1] ELSE a[1], IF a[2] = 1 THEN b[2] ELSE a[2] >>

\* FeedbackNode.process: the new buffer (its shape), the frame returned and
\* the error raised, if any.  There is no comparison of the buffer's shape
\* with the frame's: the blend is attempted whenever a buffer exists.
FeedbackProcess(buffer, frame) ==
    IF frame.isNone
    THEN [buffer |-> buffer, frame |-> frame, raised |-> "AttributeError"]
    ELSE LET shape == <<frame.h, frame.w>> IN
         IF buffer = NoBuffer
         THEN [buffer |-> shape,
               frame |-> [frame EXCEPT !.marks = Append(@, "feedback")],
               raised |-> NoError]
         ELSE IF Broadcastable(buffer, shape)
              THEN LET nb == BroadcastShape(buffer, shape) IN
                   [buffer |-> nb,
                    frame |-> [isNone |-> FALSE, h |-> nb[1], w |-> nb[2],
                               marks |-> Append(frame.marks, "feedback")],
                    raised |-> NoError]
              ELSE [buffer |-> buffer, frame |-> frame, raised |-> "ValueError"]

\* np.float32 arithmetic on values >= 0, for one pixel of the buffer.  A
\* number is <<m, e>>, standing for m * 2^e with m = 0 or
\* 2^23 <= m < 2^24 (24 significant bits); results are rounded to the
\* nearest such number, ties to the even one.  Everything stays below
\* 2^31: products of two 24-bit numbers are built from 12-bit halves.
Two23 == 8388608
Two24 == 16777216
Two12 == 4096
F32Zero == <<0, 0>>

\* q + 1 or q for a quotient q with remainder r out of d (0 <= r < d).
RoundHalfEven(q, r, d) ==
    IF 2 * r > d \/ (2 * r = d /\ q % 2 = 1) THEN q + 1 ELSE q

\* A rounded significand may have reached 2^24.
F32Normal(m, e) == IF m = Two24 THEN <<Two23, e + 1>> ELSE <<m, e>>

\* astype(np.float32) of a uint8 value: exact.
F32FromInt(c) ==
    IF c = 0 THEN F32Zero
    ELSE LET s == CHOOSE s \in 0..23 : Two23 <= c * 2^s /\ c * 2^s < Two24
         IN <<c * 2^s, 0 - s>>

\* The float32 nearest to num / 100 for 0 < num < 100: what a Python float
\* num / 100.0, or 1 - num / 100.0, becomes next to a float32 array.
F32FromHundredths(num) ==
    LET s == CHOOSE s \in 24..31 :
               Two23 * 100 <= num * 2^s /\ num * 2^s < Two24 * 100
        scaled == num * 2^s
    IN F32Normal(RoundHalfEven(scaled \div 100, scaled % 100, 100), 0 - s)

\* a * b in float32.
F32Mul(a, b) ==
    IF a[1] = 0 \/ b[1] = 0 THEN F32Zero
    ELSE LET ah == a[1] \div Two12
             al == a[1] % Two12
             bh == b[1] \div Two12
             bl == b[1] % Two12
             mid == ah * bl + al * bh
             low == (mid % Two12) * Two12 + al * bl
             top == ah * bh + mid \div Two12 + low \div Two24
             lo == low % Two24
             e == a[2] + b[2]
         IN \* the product is top * 2^24 + lo, with 2^22 <= top < 2^24
            IF top >= Two23
            THEN F32Normal(RoundHalfEven(top, lo, Two24), e + 24)
            ELSE F32Normal(RoundHalfEven(2 * top + lo \div Two23, lo % Two23, Two23),
                           e + 23)

\* a + b in float32.
F32Add(a, b) ==
    IF a[1] = 0 THEN b
    ELSE IF b[1] = 0 THEN a
    ELSE LET x == IF a[2] >= b[2] THEN a ELSE b
             y == IF a[2] >= b[2] THEN b ELSE a
             sh == x[2] - y[2]
         IN IF sh > 25 THEN x
            ELSE LET q == y[1] \div 2^sh
                     r == y[1] % 2^sh
                     sum == x[1] + q
                 IN IF sum < Two24
                    THEN F32Normal(RoundHalfEven(sum, r, 2^sh), x[2])
                    ELSE F32Normal(RoundHalfEven(sum \div 2, (sum % 2) * 2^sh + r,
                                                 2^(sh + 1)),
                                   x[2] + 1)

\* np.clip(v, 0, 255).astype(np.uint8): the fraction is cut off.
ToUint8(v) ==
    IF v[1] = 0 THEN 0
    ELSE IF v[2] >= 0 - 15 THEN 255
    ELSE IF v[2] < 0 - 30 THEN 0
    ELSE v[1] \div 2^(0 - v[2])

\* "self.buffer * self.decay + frame_f * (1 - self.decay)" for one pixel,
\* decay in hundredths.
FeedbackBlend(buffer, frame_f, decay) ==
    F32Add(F32Mul(buffer, F32FromHundredths(decay)),
           F32Mul(frame_f, F32FromHundredths(100 - decay)))

\* FeedbackNode.process for one pixel of value c (every pixel of a frame
\* of one colour goes the same way): the new buffer and the pixel returned.
FeedbackPixel(node, c) ==
    LET frame_f == F32FromInt(c)
        buffer == IF node.buffer = NoBuffer
                  THEN frame_f
                  ELSE FeedbackBlend(node.buffer, frame_f, node.decay)
    IN [buffer |-> buffer, out |-> ToUint8(buffer)]

\* ---------------------------------------------------- GlowNode, RGBSplitNode
\* GlowNode.__init__(strength, blur_size); strength is kept in hundredths,
\* the unit of the Glow slider (update_glow divides by 100.0).
GlowNodeInit(strength, blur_size) == [strength |-> strength, blur_size |-> blur_size]

\* The arguments VisualApp passes: GlowNode(1.5), blur_size left at 21.
DefaultStrength == 150
DefaultBlurSize == 21

\* cv2.GaussianBlur(frame, (ksize, ksize), 0): with sigma 0 the kernel
\* width and height must be positive and odd, anything else is a cv2.error.
GaussianBlurAccepts(ksize) == ksize > 0 /\ ksize % 2 = 1

\* GlowNode.process(frame): blur_size goes to the blur as it is.
\* cv2.GaussianBlur and cv2.split reject a None or empty image.
GlowProcess(node, frame) ==
    IF FrameInvalid(frame) \/ ~GaussianBlurAccepts(node.blur_size)
    THEN [frame |-> frame, raised |-> "cv2.error"]
    ELSE [frame |-> [frame EXCEPT !.marks = Append(@, "glow")], raised |-> NoError]

\* RGBSplitNode.__init__(shift); VisualApp passes 10.
RGBSplitNodeInit(shift) == [shift |-> shift]
DefaultShift == 10

\* Mutant: the roll moves one place too far.
NpRoll1_OneMore(a, shift) ==
    LET n == Len(a)
        k == (shift + 1) % n
    IN SubSeq(a, n - k + 1, n) \o SubSeq(a, 1, n - k)

\* np.roll along the one axis of a: the shift is taken modulo the length
\* and the last k elements move to the front.
NpRoll1(a, shift) ==
    LET n == Len(a)
        k == shift % n
    IN SubSeq(a, n - k + 1, n) \o SubSeq(a, 1, n - k)

\* np.roll(plane, shift, axis) of a plane given as its rows: axis 0 moves
\* rows, axis 1 moves the elements of every row.
NpRoll(plane, shift, axis) ==
    IF axis = 0
    THEN NpRoll1(plane, shift)
    ELSE [y \in 1..Len(plane) |-> NpRoll1(plane[y], shift)]

\* Mutant: the two axes exchanged.
RGBSplitPixels_AxesSwapped(node, F) ==
    [b |-> NpRoll(F.b, 0 - node.shift, 1), g |-> F.g, r |-> NpRoll(F.r, node.shift, 0)]

\* The pixels RGBSplitNode.process returns for a frame given as its planes
\* b, g, r (the order of cv2.split): r rolled by shift along axis 1, b by
\* -shift along axis 0, g as it is, merged again.
RGBSplitPixels(node, F) ==
    [b |-> NpRoll(F.b, 0 - node.shift, 0), g |-> F.g, r |-> NpRoll(F.r, node.shift, 1)]

RGBSplitProcess(node, frame) ==
    IF FrameInvalid(frame)
    THEN [frame |-> frame, raised |-> "cv2.error"]
    ELSE [frame |-> [frame EXCEPT !.marks = Append(@, "rgb_split")], raised |-> NoError]

\* ------------------------------------------------------ ObjectTrackingNode
\* ObjectTrackingNode.__init__ with the arguments VisualApp passes
\* (show_trail=True, trail_length=20, scaled to MaxTrailLength); contrib is
\* the outcome of _check_tracker_availability.  The attribute bg_subtractor
\* does not exist until auto_detect_object creates it.
ObjectTrackingNodeInit(contrib) ==
    [tracker_type |-> "CSRT",
     show_trail |-> TRUE,
     trail_length |-> MaxTrailLength,
     tracker |-> NoTracker,
     bbox |-> NoBox,
     trail_points |-> <<>>,
     tracker_initialized |-> FALSE,
     use_contrib_tracker |-> contrib,
     last_bbox |-> NoBox,
     bg_subtractor |-> NoModel]

\* bg_subtractor.apply(frame): the model absorbs one more frame.
BgApply(bg) == Min(bg + 1, MaxBgFrames)

\* max(contours, key=cv2.contourArea): the first contour of largest area.
LargestContour(contours) ==
    contours[CHOOSE i \in 1..Len(contours) :
                /\ \A j \in 1..Len(contours) : contours[j].area <= contours[i].area
                /\ \A j \in 1..(i - 1) : contours[j].area < contours[i].area]

\* Mutant: a contour of exactly the threshold area is taken too.
DetectedBox_AtLeast(contours) ==
    IF contours # <<>> /\ LargestContour(contours).area >= DetectAreaThreshold
    THEN LargestContour(contours).box
    ELSE NoBox

\* The tail of auto_detect_object: the box of the largest contour when its
\* area exceeds the threshold, otherwise None.
DetectedBox(contours) ==
    IF contours # <<>> /\ LargestContour(contours).area > DetectAreaThreshold
    THEN LargestContour(contours).box
    ELSE NoBox

\* auto_detect_object: create the background model if the attribute is
\* missing, apply it to the frame, and pick a box from the contours found.
AutoDetectObject(node, contours) ==
    LET bg == IF node.bg_subtractor = NoModel THEN 0 ELSE node.bg_subtractor
    IN [node |-> [node EXCEPT !.bg_subtractor = BgApply(bg)],
        bbox |-> DetectedBox(contours)]

\* Mutant: only AttributeError is caught.
CaughtErrors_AttributeOnly == {"AttributeError"}

\* "except (AttributeError, cv2.error)" of init_tracker and of the update call.
CaughtErrors == {"AttributeError", "cv2.error"}

\* Mutant: init_tracker builds a tracker without looking at
\* use_contrib_tracker.
InitTracker_AlwaysNative(node, bbox, create, init) ==
    [node |-> [node EXCEPT !.tracker = "TrackerCSRT",
                           !.bbox = bbox,
                           !.last_bbox = bbox,
                           !.tracker_initialized = TRUE],
     raised |-> NoError]

\* init_tracker(frame, bbox).  create and init are what the tracker's
\* constructor and its init call do: NoError, or the error they raise.
\* Returns the node and the error that escapes (NoError when none does).
InitTracker(node, bbox, create, init) ==
    IF node.use_contrib_tracker
    THEN IF create # NoError
         THEN IF create \in CaughtErrors
              THEN [node |-> [node EXCEPT !.tracker = NoTracker,
                                          !.tracker_initialized = FALSE],
                    raised |-> NoError]
              ELSE [node |-> node, raised |-> create]
         ELSE IF init # NoError
              THEN IF init \in CaughtErrors
                   THEN [node |-> [node EXCEPT !.tracker = NoTracker,
                                               !.tracker_initialized = FALSE],
                         raised |-> NoError]
                   ELSE [node |-> [node EXCEPT !.tracker = "TrackerCSRT"],
                         raised |-> init]
              ELSE [node |-> [node EXCEPT !.tracker = "TrackerCSRT",
                                          !.bbox = bbox,
                                          !.last_bbox = bbox,
                                          !.tracker_initialized = TRUE],
                    raised |-> NoError]
    ELSE [node |-> [node EXCEPT !.bbox = bbox,
                                !.last_bbox = bbox,
                                !.tracker_initialized = TRUE],
          raised |-> NoError]

\* The answers of tracker.update(frame): (True, box), (False, box) or an error.
UpdateOutcomes ==
    {[success |-> TRUE, bbox |-> b, error |-> NoError] : b \in Boxes}
    \cup {[success |-> FALSE, bbox |-> FailBox, error |-> NoError]}
    \cup {[success |-> FALSE, bbox |-> NoBox, error |-> e] : e \in TrackerErrors}

\* distance < 100 between the centres of two boxes (compared squared).
CloseEnough(last_bbox, bbox) ==
    LET a == Center(last_bbox)
        b == Center(bbox)
    IN (a[1] - b[1]) * (a[1] - b[1]) + (a[2] - b[2]) * (a[2] - b[2])
          < ContinuityDistance * ContinuityDistance

\* Mutant: a detection 100 pixels or more from the last box is rejected.
FallbackUpdate_RejectFar(node, contours) ==
    LET d == AutoDetectObject(node, contours) IN
    IF d.bbox # NoBox
    THEN IF d.node.last_bbox # NoBox
         THEN IF CloseEnough(d.node.last_bbox, d.bbox)
              THEN [node |-> [d.node EXCEPT !.last_bbox = d.bbox],
                    success |-> TRUE, bbox |-> d.bbox]
              ELSE [node |-> d.node, success |-> FALSE, bbox |-> NoBox]
         ELSE [node |-> [d.node EXCEPT !.last_bbox = d.bbox],
               success |-> TRUE, bbox |-> d.bbox]
    ELSE [node |-> d.node, success |-> FALSE, bbox |-> NoBox]

\* The fallback branch of process: re-detect, and accept any detection.
\* Both arms of the distance test do the same.
FallbackUpdate(node, contours) ==
    LET d == AutoDetectObject(node, contours) IN
    IF d.bbox # NoBox
    THEN IF d.node.last_bbox # NoBox
         THEN IF CloseEnough(d.node.last_bbox, d.bbox)
              THEN [node |-> [d.node EXCEPT !.last_bbox = d.bbox],
                    success |-> TRUE, bbox |-> d.bbox]
              ELSE [node |-> [d.node EXCEPT !.last_bbox = d.bbox],
                    success |-> TRUE, bbox |-> d.bbox]
         ELSE [node |-> [d.node EXCEPT !.last_bbox = d.bbox],
               success |-> TRUE, bbox |-> d.bbox]
    ELSE [node |-> d.node, success |-> FALSE, bbox |-> NoBox]

\* Mutant: a full trail drops its newest point instead of its oldest.
AddToTrail_DropNewest(node, center) ==
    LET t == Append(node.trail_points, center) IN
    [node EXCEPT !.trail_points =
        IF Len(t) > node.trail_length THEN SubSeq(t, 1, Len(t) - 1) ELSE t]

\* "Add to trail": append the centre, then drop the oldest point once when
\* the trail is longer than trail_length.
AddToTrail(node, center) ==
    LET t == Append(node.trail_points, center) IN
    [node EXCEPT !.trail_points = IF Len(t) > node.trail_length THEN Tail(t) ELSE t]

\* The "if success and bbox" arm: adopt the box, extend the trail.
TrackSuccess(node, bbox) ==
    LET n == [node EXCEPT !.bbox = bbox] IN
    IF n.show_trail THEN AddToTrail(n, Center(bbox)) ELSE n

\* Mutant: the native arm forgets to clear the trail.
TrackLost_KeepTrail(node) ==
    IF ~node.use_contrib_tracker
    THEN [node EXCEPT !.last_bbox = NoBox]
    ELSE [node EXCEPT !.tracker_initialized = FALSE,
                      !.tracker = NoTracker]

\* Mutant: a lost track resets the node in fallback mode too.
TrackLost_AlwaysReset(node) ==
    [node EXCEPT !.tracker_initialized = FALSE,
                 !.tracker = NoTracker,
                 !.trail_points = <<>>]

\* The "Tracking lost" arm.
TrackLost(node) ==
    IF ~node.use_contrib_tracker
    THEN [node EXCEPT !.last_bbox = NoBox]
    ELSE [node EXCEPT !.tracker_initialized = FALSE,
                      !.tracker = NoTracker,
                      !.trail_points = <<>>]

\* The native branch of process: tracker.update(frame) inside try/except.
NativeUpdate(node, u) ==
    IF u.error # NoError
    THEN IF u.error \in CaughtErrors
         THEN [node |-> node, success |-> FALSE, bbox |-> NoBox, raised |-> NoError]
         ELSE [node |-> node, success |-> FALSE, bbox |-> NoBox, raised |-> u.error]
    ELSE [node |-> node, success |-> u.success, bbox |-> u.bbox, raised |-> NoError]

\* What the constructor and init of a native tracker can do in one init_tracker call.
InitOutcomes(node) ==
    IF node.use_contrib_tracker
    THEN {<<NoError, NoError>>}
         \cup {<<e, NoError>> : e \in TrackerErrors}
         \cup {<<NoError, e>> : e \in TrackerErrors}
    ELSE {<<NoError, NoError>>}

\* What one call of ObjectTrackingNode.process did, kept for the properties:
\* whether the node was initialized on entry, which branch updated the track,
\* whether the update succeeded, which tracker call raised an error, and
\* how often the background model was applied.
NoCall ==
    [called |-> FALSE, was_init |-> FALSE, track |-> "none",
     success |-> FALSE, err |-> "none", applies |-> 0]

\* What the auto-detection of the first half of process saw and answered:
\* whether it ran, the contours findContours gave it, and the box returned.
NoDetect == [ran |-> FALSE, seen |-> <<>>, detected |-> NoBox]

\* "Auto-initialize tracker if not initialized": the first half of process.
AutoInitialize(node) ==
    IF node.tracker_initialized
    THEN {[node |-> node, raised |-> NoError, err |-> "none", applies |-> 0,
           detect |-> NoDetect]}
    ELSE UNION {
           LET d == AutoDetectObject(node, c)
               detect == [ran |-> TRUE, seen |-> c, detected |-> d.bbox]
           IN
           IF d.bbox = NoBox
           THEN {[node |-> d.node, raised |-> NoError, err |-> "none", applies |-> 1,
                  detect |-> detect]}
           ELSE {LET r == InitTracker(d.node, d.bbox, o[1], o[2]) IN
                 [node |-> r.node, raised |-> r.raised,
                  err |-> IF o[1] # NoError THEN "create"
                          ELSE IF o[2] # NoError THEN "init" ELSE "none",
                  applies |-> 1,
                  detect |-> detect] : o \in InitOutcomes(d.node)}
           : c \in ContourInputs }

\* The end of the tracking half: draw on success, otherwise "Tracking lost".
FinishTrack(frame, was_init, track, upd, err, applies) ==
    IF upd.success /\ upd.bbox # NoBox
    THEN [node |-> TrackSuccess(upd.node, upd.bbox),
          frame |-> [frame EXCEPT !.marks = Append(@, "object_tracking")],
          raised |-> NoError,
          call |-> [called |-> TRUE, was_init |-> was_init,
                    track |-> track, success |-> TRUE, err |-> err,
                    applies |-> applies]]
    ELSE [node |-> TrackLost(upd.node),
          frame |-> frame,
          raised |-> NoError,
          call |-> [called |-> TRUE, was_init |-> was_init,
                    track |-> track, success |-> FALSE, err |-> err,
                    applies |-> applies]]

\* "Track object if initialized": the second half of process, after
\* AutoInitialize left the node in a.node.
TrackObject(a, frame, was_init) ==
    IF a.raised # NoError
    THEN {[node |-> a.node, frame |-> frame, raised |-> a.raised,
           call |-> [called |-> TRUE, was_init |-> was_init,
                     track |-> "none", success |-> FALSE, err |-> a.err,
                     applies |-> a.applies]]}
    ELSE IF ~a.node.tracker_initialized
    THEN {[node |-> a.node, frame |-> frame, raised |-> NoError,
           call |-> [called |-> TRUE, was_init |-> was_init,
                     track |-> "none", success |-> FALSE, err |-> a.err,
                     applies |-> a.applies]]}
    ELSE IF a.node.use_contrib_tracker /\ a.node.tracker # NoTracker
    THEN {LET n == NativeUpdate(a.node, u) IN
          IF n.raised # NoError
          THEN [node |-> n.node, frame |-> frame, raised |-> n.raised,
                call |-> [called |-> TRUE, was_init |-> was_init,
                          track |-> "native", success |-> FALSE, err |-> "update",
                          applies |-> a.applies]]
          ELSE FinishTrack(frame, was_init, "native", n,
                           IF u.error # NoError THEN "update" ELSE a.err,
                           a.applies)
          : u \in UpdateOutcomes}
    ELSE {FinishTrack(frame, was_init, "fallback",
                      FallbackUpdate(a.node, c), a.err, a.applies + 1)
          : c \in ContourInputs}

\* An outcome of AutoInitialize without what the detection saw.
Initialized(a) ==
    [node |-> a.node, raised |-> a.raised, err |-> a.err, applies |-> a.applies]

\* ObjectTrackingNode.process(frame): every outcome the environment allows.
ObjectTrackingProcess(node, frame) ==
    IF FrameInvalid(frame)
    THEN {[node |-> node, frame |-> frame, raised |-> NoError,
           call |-> [NoCall EXCEPT !.called = TRUE]]}
    ELSE UNION {TrackObject(a, frame, node.tracker_initialized)
                : a \in {Initialized(x) : x \in AutoInitialize(node)}}

\* The same call, each outcome with what its auto-detection saw (detect).
ObjectTrackingObserved(node, frame) ==
    IF FrameInvalid(frame)
    THEN {[node |-> node, frame |-> frame, raised |-> NoError,
           call |-> [NoCall EXCEPT !.called = TRUE], detect |-> NoDetect]}
    ELSE UNION {{[node |-> r.node, frame |-> r.frame, raised |-> r.raised,
                  call |-> r.call, detect |-> a.detect]
                 : r \in TrackObject(Initialized(a), frame, node.tracker_initialized)}
                : a \in AutoInitialize(node)}

\* -------------------------------------------------------- BlobTrackingNode
\* BlobTrackingNode.__init__: the parameters, and no background model yet.
BlobTrackingNodeInit(min_area, max_area, show_contours, show_centroids) ==
    [min_area |-> min_area, max_area |-> max_area,
     show_contours |-> show_contours, show_centroids |-> show_centroids,
     bg_subtractor |-> NoModel]

\* VisualApp passes BlobTrackingNode(min_area=100, max_area=50000).
DefaultMinArea == 100
DefaultMaxArea == 50000

\* "if self.bg_subtractor is None: self.bg_subtractor = createBackgroundSubtractorMOG2(...)"
BlobEnsureModel(bg) == IF bg = NoModel THEN 0 ELSE bg

\* BlobTrackingNode.process(frame): create the model when it is None, then
\* apply it.  Calling apply on None is an AttributeError.
BlobTrackingProcess(node, frame) ==
    IF FrameInvalid(frame)
    THEN [node |-> node, frame |-> frame, raised |-> NoError,
          created |-> FALSE, applied |-> FALSE]
    ELSE LET bg == BlobEnsureModel(node.bg_subtractor) IN
         IF bg = NoModel
         THEN [node |-> node, frame |-> frame, raised |-> "AttributeError",
               created |-> FALSE, applied |-> FALSE]
         ELSE [node |-> [node EXCEPT !.bg_subtractor = BgApply(bg)],
               frame |-> frame, raised |-> NoError,
               created |-> (node.bg_subtractor = NoModel), applied |-> TRUE]

\* An external contour as findContours returns it, known by the area it
\* encloses.
BlobContour(area) == [area |-> area]

\* cv2.contourArea(contour)
ContourArea(contour) == contour.area

\* cv2.moments(contour)["m00"]: for a contour the zeroth moment is the
\* area, both come from Green's formula.
MomentM00(contour) == contour.area

\* Mutant: both limits exclusive.
BlobAccepts_Exclusive(node, area) == node.min_area < area /\ area < node.max_area

\* "if self.min_area <= area <= self.max_area"
BlobAccepts(node, area) == node.min_area <= area /\ area <= node.max_area

\* "if self.show_contours: cv2.drawContours(...)", first thing in the
\* accepted arm.
BlobOutline(node, contour) == IF node.show_contours THEN {"contour"} ELSE {}

\* Mutant: no test of the moment.
BlobMomentGuard_None(contour) == TRUE

\* 'if M["m00"] != 0'
BlobMomentGuard(contour) == MomentM00(contour) # 0

\* 'cx = int(M["m10"] / M["m00"])': a float division, by zero it raises.
BlobCentroid(contour) ==
    IF MomentM00(contour) = 0 THEN "ZeroDivisionError" ELSE NoError

\* One round of the contour loop: what is drawn for the contour, and the
\* error the round raises.  The centroid, the bounding box and the area
\* label sit under the moment test.
BlobDraw(node, contour) ==
    IF BlobAccepts(node, ContourArea(contour))
    THEN LET outline == BlobOutline(node, contour) IN
         IF BlobMomentGuard(contour)
         THEN IF BlobCentroid(contour) # NoError
              THEN [drawn |-> outline, raised |-> BlobCentroid(contour)]
              ELSE [drawn |-> outline
                              \cup (IF node.show_centroids THEN {"centroid"} ELSE {})
                              \cup {"box", "label"},
                    raised |-> NoError]
         ELSE [drawn |-> outline, raised |-> NoError]
    ELSE [drawn |-> {}, raised |-> NoError]

\* The contour loop of process: drawn[i] is what contours[i] gets; an error
\* ends the loop.
RECURSIVE BlobAnnotate(_, _)
BlobAnnotate(node, contours) ==
    IF contours = <<>>
    THEN [drawn |-> <<>>, raised |-> NoError]
    ELSE LET d == BlobDraw(node, Head(contours)) IN
         IF d.raised # NoError
         THEN [drawn |-> <<d.drawn>>, raised |-> d.raised]
         ELSE LET rest == BlobAnnotate(node, Tail(contours)) IN
              [drawn |-> <<d.drawn>> \o rest.drawn, raised |-> rest.raised]

\* What one call of BlobTrackingNode.process did.
NoBlobCall == [called |-> FALSE, created |-> FALSE, applied |-> FALSE]

\* ------------------------------------------------------------ VisualEngine
\* The state a frame meets on its way through the node list.
World(fb, gl, rg, ot, blob, frame) ==
    [feedback |-> fb, glow |-> gl, rgb |-> rg,
     object_tracking |-> ot, blob_tracking |-> blob,
     frame |-> frame, applied |-> <<>>, io |-> <<frame>>, raised |-> NoError,
     otcall |-> NoCall, blobcall |-> NoBlobCall]

\* node.process(frame) for the node called name: the worlds it can leave.
NodeCall(name, w) ==
    LET called == [w EXCEPT !.applied = Append(@, name)] IN
    CASE name = "feedback" ->
           {LET r == FeedbackProcess(w.feedback.buffer, w.frame) IN
            [called EXCEPT !.feedback.buffer = r.buffer, !.frame = r.frame,
                           !.raised = r.raised]}
      [] name = "glow" ->
           {LET r == GlowProcess(w.glow, w.frame) IN
            [called EXCEPT !.frame = r.frame, !.raised = r.raised]}
      [] name = "rgb_split" ->
           {LET r == RGBSplitProcess(w.rgb, w.frame) IN
            [called EXCEPT !.frame = r.frame, !.raised = r.raised]}
      [] name = "object_tracking" ->
           {[called EXCEPT !.object_tracking = r.node, !.frame = r.frame,
                           !.raised = r.raised, !.otcall = r.call]
            : r \in ObjectTrackingProcess(w.object_tracking, w.frame)}
      [] name = "blob_tracking" ->
           {LET r == BlobTrackingProcess(w.blob_tracking, w.frame) IN
            [called EXCEPT !.blob_tracking = r.node, !.frame = r.frame,
                           !.raised = r.raised,
                           !.blobcall = [called |-> TRUE,
                                         created |-> r.created,
                                         applied |-> r.applied]]}

\* "frame = node.process(frame)": the frame a node returns is the next
\* node's input; io keeps the input frame and then each frame returned.
NodeProcess(name, w) ==
    {IF w2.raised = NoError THEN [w2 EXCEPT !.io = Append(@, w2.frame)] ELSE w2
     : w2 \in NodeCall(name, w)}

\* VisualEngine.process: "for node in self.nodes: frame = node.process(frame)".
\* An error raised by a node ends the loop and leaves through the caller.
RECURSIVE EngineProcess(_, _)
EngineProcess(nodes, w) ==
    IF nodes = <<>> \/ w.raised # NoError
    THEN {w}
    ELSE UNION {EngineProcess(Tail(nodes), w2) : w2 \in NodeProcess(Head(nodes), w)}

\* --------------------------------------------------------------- VisualApp
VARIABLES
    effects_enabled,   \* VisualApp.effects_enabled
    engine,            \* VisualApp.engine.nodes, as node names
    feedback,          \* VisualApp.feedback (FeedbackNode)
    glow,              \* VisualApp.glow (GlowNode)
    rgb,               \* VisualApp.rgb (RGBSplitNode)
    object_tracking,   \* VisualApp.object_tracking (ObjectTrackingNode)
    blob_tracking,     \* VisualApp.blob_tracking (BlobTrackingNode)
    last               \* the operation that led to this state and what it did

vars == <<effects_enabled, engine, feedback, glow, rgb, object_tracking, blob_tracking, last>>

\* Mutant: the engine is handed every node, enabled or not.
UpdateEngine_All(enabled) == NodeOrder

\* update_engine: the enabled nodes, in pipeline order.
UpdateEngine(enabled) == SelectSeq(NodeOrder, LAMBDA n : enabled[n])

\* last after a controller handler: op names it, reset tells whether it
\* discarded state the node held.  After a process call: the nodes applied,
\* the frames passed along (io[1] is the input, io[i + 1] what applied[i]
\* returned), the error that left the call, and what the tracking nodes did.
NoOp(op, reset) ==
    [op |-> op, reset |-> reset, applied |-> <<>>, io |-> <<>>, raised |-> NoError,
     otcall |-> NoCall, blobcall |-> NoBlobCall]

\* The application with the nodes in enabled switched on and the engine
\* built from them.
Enabled(enabled) ==
    /\ effects_enabled = [n \in NodeNames |-> n \in enabled]
    /\ engine = UpdateEngine(effects_enabled)

\* The application once its nodes are constructed: feedback, glow and
\* rgb_split enabled, the engine built from those three.
Constructed(fb, gl, rg, ot, blob) ==
    /\ Enabled({"feedback", "glow", "rgb_split"})
    /\ feedback = fb
    /\ glow = gl
    /\ rgb = rg
    /\ object_tracking = ot
    /\ blob_tracking = blob

\* VisualApp.__init__: the nodes with the arguments the application passes;
\* the tracking mode is what the OpenCV build gives.
Init ==
    /\ \E contrib \in BOOLEAN :
          Constructed(FeedbackNodeInit(DefaultDecay),
                      GlowNodeInit(DefaultStrength, DefaultBlurSize),
                      RGBSplitNodeInit(DefaultShift),
                      ObjectTrackingNodeInit(contrib),
                      BlobTrackingNodeInit(DefaultMinArea, DefaultMaxArea, TRUE, TRUE))
    /\ last = NoOp("init", FALSE)

\* A QCheckBox emits stateChanged only when its state changes, and each box
\* starts in the state of effects_enabled.
StateChanges(name, state) == (state = Checked) # effects_enabled[name]

\* toggle_feedback, toggle_glow, toggle_rgb.
ToggleEffect(name, state) ==
    /\ StateChanges(name, state)
    /\ effects_enabled' = [effects_enabled EXCEPT ![name] = (state = Checked)]
    /\ engine' = UpdateEngine(effects_enabled')
    /\ last' = NoOp("toggle_effect", FALSE)
    /\ UNCHANGED <<feedback, glow, rgb, object_tracking, blob_tracking>>

ToggleFeedback == \E state \in {Checked, Unchecked} : ToggleEffect("feedback", state)
ToggleGlow == \E state \in {Checked, Unchecked} : ToggleEffect("glow", state)
ToggleRgb == \E state \in {Checked, Unchecked} : ToggleEffect("rgb_split", state)

\* Mutant: the reset leaves the tracker instance in place.
ResetObjectTracking_KeepTracker(node) ==
    [node EXCEPT !.tracker_initialized = FALSE,
                 !.trail_points = <<>>]

\* The reset of toggle_object_tracking on Unchecked.
ResetObjectTracking(node) ==
    [node EXCEPT !.tracker_initialized = FALSE,
                 !.tracker = NoTracker,
                 !.trail_points = <<>>]

ToggleObjectTracking ==
    \E state \in {Checked, Unchecked} :
        /\ StateChanges("object_tracking", state)
        /\ effects_enabled' = [effects_enabled EXCEPT !["object_tracking"] = (state = Checked)]
        /\ object_tracking' = IF state = Unchecked
                              THEN ResetObjectTracking(object_tracking)
                              ELSE object_tracking
        /\ engine' = UpdateEngine(effects_enabled')
        /\ last' = NoOp("toggle_object_tracking",
                        state = Unchecked /\ object_tracking.tracker_initialized)
        /\ UNCHANGED <<feedback, glow, rgb, blob_tracking>>

\* Mutant: the handler forgets the reset.
ResetBlobTracking_Keep(node) == node

\* The reset of toggle_blob_tracking on Unchecked.
ResetBlobTracking(node) == [node EXCEPT !.bg_subtractor = NoModel]

ToggleBlobTracking ==
    \E state \in {Checked, Unchecked} :
        /\ StateChanges("blob_tracking", state)
        /\ effects_enabled' = [effects_enabled EXCEPT !["blob_tracking"] = (state = Checked)]
        /\ blob_tracking' = IF state = Unchecked
                            THEN ResetBlobTracking(blob_tracking)
                            ELSE blob_tracking
        /\ engine' = UpdateEngine(effects_enabled')
        /\ last' = NoOp("toggle_blob_tracking",
                        state = Unchecked /\ blob_tracking.bg_subtractor # NoModel)
        /\ UNCHANGED <<feedback, glow, rgb, object_tracking>>

\* update_trail(value): the slider hands over its new value.
UpdateTrail ==
    \E value \in 1..MaxTrailLength :
        /\ value # object_tracking.trail_length
        /\ object_tracking' = [object_tracking EXCEPT !.trail_length = value]
        /\ last' = NoOp("update_trail", FALSE)
        /\ UNCHANGED <<effects_enabled, engine, feedback, glow, rgb, blob_tracking>>

\* engine.process(frame) on one frame: update_frame's
\* "processed_frame = self.engine.process(frame)", or any caller of the
\* engine, which may also hand over None or an empty frame.
Process ==
    \E frame \in Frames :
        \E w \in EngineProcess(engine, World(feedback, glow, rgb, object_tracking, blob_tracking, frame)) :
            /\ feedback' = w.feedback
            /\ object_tracking' = w.object_tracking
            /\ blob_tracking' = w.blob_tracking
            /\ last' = [op |-> "process", reset |-> FALSE, applied |-> w.applied,
                        io |-> w.io, raised |-> w.raised,
                        otcall |-> w.otcall, blobcall |-> w.blobcall]
            /\ UNCHANGED <<effects_enabled, engine, glow, rgb>>

Next ==
    \/ ToggleFeedback
    \/ ToggleGlow
    \/ ToggleRgb
    \/ ToggleObjectTracking
    \/ ToggleBlobTracking
    \/ UpdateTrail
    \/ Process

Spec == Init /\ [][Next]_vars

\* ====================================================================
\* The nodes on their own
\* ====================================================================
\* Each specification below constructs one node with arguments drawn from
\* a bounded set and calls its methods directly; the rest of the
\* application stays as constructed.

\* Every variable but the ones named.
ExceptGlow == <<effects_enabled, engine, feedback, rgb, object_tracking, blob_tracking>>

\* ------------------------------------------------------------ GlowNode
\* GlowNode(strength, blur_size) for any integer blur_size in the range.
MaxBlurSize == 22
BlurSizes == (0 - MaxBlurSize)..MaxBlurSize

GlowInit ==
    /\ \E blur_size \in BlurSizes :
          Constructed(FeedbackNodeInit(DefaultDecay),
                      GlowNodeInit(DefaultStrength, blur_size),
                      RGBSplitNodeInit(DefaultShift),
                      ObjectTrackingNodeInit(FALSE),
                      BlobTrackingNodeInit(DefaultMinArea, DefaultMaxArea, TRUE, TRUE))
    /\ last = [op |-> "init"]

\* glow.process(frame)
GlowCall ==
    \E frame \in Frames :
        LET r == GlowProcess(glow, frame) IN
        /\ last' = [op |-> "glow.process", frame |-> frame,
                    out |-> r.frame, raised |-> r.raised]
        /\ UNCHANGED <<glow, ExceptGlow>>

SpecGlow == GlowInit /\ [][GlowCall]_vars

\* -------------------------------------------------------- FeedbackNode
\* FeedbackNode(decay) for some slider positions of decay, fed up to
\* MaxFeeds frames, each of one colour: the buffer is followed in one pixel.
MaxFeeds == 4
DecayValues == {50, DefaultDecay, 99}
Colors == {0, 3, 100, 255}

ExceptFeedback == <<effects_enabled, engine, glow, rgb, object_tracking, blob_tracking>>

FeedbackInit ==
    /\ \E decay \in DecayValues :
          Constructed(FeedbackNodeInit(decay),
                      GlowNodeInit(DefaultStrength, DefaultBlurSize),
                      RGBSplitNodeInit(DefaultShift),
                      ObjectTrackingNodeInit(FALSE),
                      BlobTrackingNodeInit(DefaultMinArea, DefaultMaxArea, TRUE, TRUE))
    /\ last = [op |-> "init", calls |-> 0]

\* feedback.process(frame) on a frame all of colour c.  last keeps the
\* colour, the buffer the call found, the pixel returned, and the number
\* of calls so far.
FeedbackCall ==
    \E c \in Colors :
        LET r == FeedbackPixel(feedback, c) IN
        /\ last.calls < MaxFeeds
        /\ feedback' = [feedback EXCEPT !.buffer = r.buffer]
        /\ last' = [op |-> "feedback.process", color |-> c,
                    before |-> feedback.buffer, out |-> r.out,
                    calls |-> last.calls + 1]
        /\ UNCHANGED ExceptFeedback

SpecFeedback == FeedbackInit /\ [][FeedbackCall]_vars

\* -------------------------------------------------- ObjectTrackingNode
\* ObjectTrackingNode in either tracking mode, its process called directly
\* and its reset by toggle_object_tracking.  last keeps the node as the
\* call found it, the frames in and out, the error that left the call,
\* what the call did and what its auto-detection saw.
ExceptTracking == <<effects_enabled, engine, feedback, glow, rgb, blob_tracking>>

TrackingInit ==
    /\ \E contrib \in BOOLEAN :
          Constructed(FeedbackNodeInit(DefaultDecay),
                      GlowNodeInit(DefaultStrength, DefaultBlurSize),
                      RGBSplitNodeInit(DefaultShift),
                      ObjectTrackingNodeInit(contrib),
                      BlobTrackingNodeInit(DefaultMinArea, DefaultMaxArea, TRUE, TRUE))
    /\ last = [op |-> "init", hist |-> <<>>]

\* The last MaxTrailLength + 1 elements of a sequence.
Recent(s) ==
    IF Len(s) > MaxTrailLength + 1
    THEN SubSeq(s, Len(s) - MaxTrailLength, Len(s))
    ELSE s

\* The centres of the successful updates since the trail was last cleared,
\* as far back as Recent keeps them: a successful update adds the centre of
\* the box it adopted, and the native "Tracking lost" arm, which clears
\* trail_points, starts the record afresh.
History(hist, before, r) ==
    IF r.call.success
    THEN Recent(Append(hist, Center(r.node.bbox)))
    ELSE IF r.call.track # "none" /\ r.raised = NoError /\ before.use_contrib_tracker
    THEN <<>>
    ELSE hist

\* object_tracking.process(frame)
TrackingCall ==
    \E frame \in Frames :
        \E r \in ObjectTrackingObserved(object_tracking, frame) :
            /\ object_tracking' = r.node
            /\ last' = [op |-> "tracking.process", before |-> object_tracking,
                        frame |-> frame, out |-> r.frame, raised |-> r.raised,
                        call |-> r.call, detect |-> r.detect,
                        hist |-> History(last.hist, object_tracking, r)]
            /\ UNCHANGED ExceptTracking

\* The reset toggle_object_tracking does when the box is unchecked.
TrackingReset ==
    /\ object_tracking' = ResetObjectTracking(object_tracking)
    /\ last' = [op |-> "tracking.reset", hist |-> <<>>]
    /\ UNCHANGED ExceptTracking

\* update_trail(value) on the node: the attribute is set, the trail is left
\* as it is.
TrackingUpdateTrail ==
    \E value \in 1..MaxTrailLength :
        /\ value # object_tracking.trail_length
        /\ object_tracking' = [object_tracking EXCEPT !.trail_length = value]
        /\ last' = [op |-> "tracking.update_trail", hist |-> last.hist]
        /\ UNCHANGED ExceptTracking

TrackingNext == TrackingCall \/ TrackingReset \/ TrackingUpdateTrail

SpecTracking == TrackingInit /\ [][TrackingNext]_vars

\* -------------------------------------------------------- RGBSplitNode
\* RGBSplitNode(shift) for shifts up to MaxShift, on frames of up to MaxDim
\* rows and columns.  A plane whose pixels all differ shows where every
\* pixel goes, the roll does not look at the values; the planes of a frame
\* are such planes (with values apart from each other) or constant ones.
MaxDim == 3
MaxShift == 4

\* The plane of h rows and w columns with base + y * w + x at row y, column
\* x (counted from 0), and the plane with base everywhere.
CountingPlane(h, w, base) == [y \in 1..h |-> [x \in 1..w |-> base + (y - 1) * w + (x - 1)]]
ConstantPlane(h, w, base) == [y \in 1..h |-> [x \in 1..w |-> base]]
Planes(h, w, base) == {CountingPlane(h, w, base), ConstantPlane(h, w, base)}
PixelFrames ==
    UNION {[b : Planes(h, w, 0), g : Planes(h, w, 100), r : Planes(h, w, 200)]
           : h \in 1..MaxDim, w \in 1..MaxDim}

ExceptRgb == <<effects_enabled, engine, feedback, glow, object_tracking, blob_tracking>>

RgbInit ==
    /\ \E shift \in 0..MaxShift :
          Constructed(FeedbackNodeInit(DefaultDecay),
                      GlowNodeInit(DefaultStrength, DefaultBlurSize),
                      RGBSplitNodeInit(shift),
                      ObjectTrackingNodeInit(FALSE),
                      BlobTrackingNodeInit(DefaultMinArea, DefaultMaxArea, TRUE, TRUE))
    /\ last = [op |-> "init"]

\* rgb.process(frame)
RgbCall ==
    \E F \in PixelFrames :
        /\ last' = [op |-> "rgb.process", frame |-> F, out |-> RGBSplitPixels(rgb, F)]
        /\ UNCHANGED <<rgb, ExceptRgb>>

SpecRgb == RgbInit /\ [][RgbCall]_vars

\* ---------------------------------------------------- BlobTrackingNode
\* BlobTrackingNode(min_area, max_area, show_contours, show_centroids) with
\* any of the limits below, its two setters, and process on frames in which
\* findContours finds up to MaxContours contours.
MaxContours == 2
BlobAreas == {0, 99, 100, 50000, 50001}
MinAreas == {0, 100}
MaxAreas == {100, 50000}
RECURSIVE SeqsUpTo(_, _)
SeqsUpTo(S, n) ==
    IF n = 0 THEN {<<>>}
    ELSE LET shorter == SeqsUpTo(S, n - 1) IN
         shorter \cup {Append(q, x) : q \in shorter, x \in S}
BlobContourInputs == SeqsUpTo({BlobContour(a) : a \in BlobAreas}, MaxContours)

ExceptBlob == <<effects_enabled, engine, feedback, glow, rgb, object_tracking>>

BlobInit ==
    /\ \E min_area \in MinAreas, max_area \in MaxAreas, sc \in BOOLEAN, sd \in BOOLEAN :
          Constructed(FeedbackNodeInit(DefaultDecay),
                      GlowNodeInit(DefaultStrength, DefaultBlurSize),
                      RGBSplitNodeInit(DefaultShift),
                      ObjectTrackingNodeInit(FALSE),
                      BlobTrackingNodeInit(min_area, max_area, sc, sd))
    /\ last = [op |-> "init"]

\* blob_tracking.process(frame): contours is what findContours returns for
\* the frame; an invalid frame is returned before any contour is looked for.
\* last keeps whether the frame was valid, the node as the call found it,
\* the contours and what was drawn for each.
BlobCall ==
    \E frame \in Frames, contours \in BlobContourInputs :
        LET r == BlobTrackingProcess(blob_tracking, frame)
            found == IF FrameInvalid(frame) \/ r.raised # NoError THEN <<>> ELSE contours
            a == BlobAnnotate(blob_tracking, found)
        IN
        /\ blob_tracking' = r.node
        /\ last' = [op |-> "blob.process", valid |-> ~FrameInvalid(frame),
                    raised |-> IF r.raised # NoError THEN r.raised ELSE a.raised,
                    node |-> blob_tracking, contours |-> found, drawn |-> a.drawn]
        /\ UNCHANGED ExceptBlob

\* update_blob_min(value), update_blob_max(value)
BlobUpdateMin ==
    \E value \in MinAreas :
        /\ value # blob_tracking.min_area
        /\ blob_tracking' = [blob_tracking EXCEPT !.min_area = value]
        /\ last' = [op |-> "update_blob_min"]
        /\ UNCHANGED ExceptBlob

BlobUpdateMax ==
    \E value \in MaxAreas :
        /\ value # blob_tracking.max_area
        /\ blob_tracking' = [blob_tracking EXCEPT !.max_area = value]
        /\ last' = [op |-> "update_blob_max"]
        /\ UNCHANGED ExceptBlob

BlobNext == BlobCall \/ BlobUpdateMin \/ BlobUpdateMax

SpecBlob == BlobInit /\ [][BlobNext]_vars

\* ------------------------------------------------- the parameter sliders
\* The application with one node enabled (the toggles lead there), the
\* sliders of that node, and engine.process.  A node reads nothing but its
\* own attributes and the frame, so the nodes are looked at one at a time.
ParamNames == {"decay", "strength", "shift", "trail_length", "min_area", "max_area"}

ParamOwner(p) ==
    CASE p = "decay" -> "feedback"
      [] p = "strength" -> "glow"
      [] p = "shift" -> "rgb_split"
      [] p = "trail_length" -> "object_tracking"
      [] p \in {"min_area", "max_area"} -> "blob_tracking"

\* Slider positions: the initial one and another one within the range.
ParamValues(p) ==
    CASE p = "decay" -> {50, DefaultDecay}
      [] p = "strength" -> {0, DefaultStrength}
      [] p = "shift" -> {0, DefaultShift}
      [] p = "trail_length" -> 1..MaxTrailLength
      [] p = "min_area" -> {DefaultMinArea, 101}
      [] p = "max_area" -> {DefaultMaxArea, 50001}

\* The node object of a name.
NodeOf(name) ==
    CASE name = "feedback" -> feedback
      [] name = "glow" -> glow
      [] name = "rgb_split" -> rgb
      [] name = "object_tracking" -> object_tracking
      [] name = "blob_tracking" -> blob_tracking

\* The value each attribute gets from VisualApp.__init__.
ParamDefault(p) ==
    CASE p = "decay" -> DefaultDecay
      [] p = "strength" -> DefaultStrength
      [] p = "shift" -> DefaultShift
      [] p = "trail_length" -> MaxTrailLength
      [] p = "min_area" -> DefaultMinArea
      [] p = "max_area" -> DefaultMaxArea

\* Mutant: process works with the value the node was constructed with.
ReadAttribute_Constructed(node, p) == ParamDefault(p)

\* "self.<p>" inside process: the attribute as it is at the call.
ReadAttribute(node, p) == node[p]

\* The adjustable attributes a process call reads.  FeedbackNode reads decay
\* when it blends, GlowNode strength after the blur, RGBSplitNode shift
\* after the split, ObjectTrackingNode trail_length when it appends to the
\* trail, BlobTrackingNode min_area for every contour and max_area for
\* those that pass min_area.
AttributesRead(name, node, frame, call, contours) ==
    CASE name = "feedback" ->
           IF frame.isNone \/ node.buffer = NoBuffer THEN {} ELSE {"decay"}
      [] name = "glow" ->
           IF FrameInvalid(frame) \/ ~GaussianBlurAccepts(node.blur_size)
           THEN {} ELSE {"strength"}
      [] name = "rgb_split" ->
           IF FrameInvalid(frame) THEN {} ELSE {"shift"}
      [] name = "object_tracking" ->
           IF call.success /\ node.show_trail THEN {"trail_length"} ELSE {}
      [] name = "blob_tracking" ->
           IF FrameInvalid(frame) \/ contours = <<>>
           THEN {}
           ELSE {"min_area"}
                \cup (IF \E i \in 1..Len(contours) :
                            node.min_area <= ContourArea(contours[i])
                      THEN {"max_area"} ELSE {})

\* last keeps, in set, the value each attribute was last given, by the
\* constructor or by a slider, and after a process call, in used, the value
\* the call read for each attribute it read.
ParamInit ==
    /\ \E name \in NodeNames : Enabled({name})
    /\ feedback = FeedbackNodeInit(DefaultDecay)
    /\ glow = GlowNodeInit(DefaultStrength, DefaultBlurSize)
    /\ rgb = RGBSplitNodeInit(DefaultShift)
    /\ object_tracking = ObjectTrackingNodeInit(FALSE)
    /\ blob_tracking = BlobTrackingNodeInit(DefaultMinArea, DefaultMaxArea, TRUE, TRUE)
    /\ last = [op |-> "init", set |-> [p \in ParamNames |-> ParamDefault(p)]]

\* "self.<node>.<p> = value" of an update handler, on the node it owns.
SetAttribute(name, node, p, value) ==
    IF ParamOwner(p) = name THEN [node EXCEPT ![p] = value] ELSE node

\* update_feedback, update_glow, update_rgb, update_trail, update_blob_min,
\* update_blob_max: the slider of an enabled node hands over its new value
\* (in the slider's unit).
UpdateParam(p) ==
    \E value \in ParamValues(p) :
        /\ effects_enabled[ParamOwner(p)]
        /\ value # NodeOf(ParamOwner(p))[p]
        /\ feedback' = SetAttribute("feedback", feedback, p, value)
        /\ glow' = SetAttribute("glow", glow, p, value)
        /\ rgb' = SetAttribute("rgb_split", rgb, p, value)
        /\ object_tracking' = SetAttribute("object_tracking", object_tracking, p, value)
        /\ blob_tracking' = SetAttribute("blob_tracking", blob_tracking, p, value)
        /\ last' = [op |-> "update", param |-> p,
                    set |-> [last.set EXCEPT ![p] = value]]
        /\ UNCHANGED <<effects_enabled, engine>>

UpdateFeedback == UpdateParam("decay")
UpdateGlow == UpdateParam("strength")
UpdateRgb == UpdateParam("shift")
UpdateTrailLength == UpdateParam("trail_length")
UpdateBlobMin == UpdateParam("min_area")
UpdateBlobMax == UpdateParam("max_area")

\* engine.process(frame) with the one node enabled; contours is what
\* findContours returns to BlobTrackingNode.
ParamProcess ==
    \E frame \in Frames :
      \E contours \in (IF engine[1] = "blob_tracking" THEN BlobContourInputs ELSE {<<>>}) :
        \E w \in EngineProcess(engine, World(feedback, glow, rgb, object_tracking,
                                              blob_tracking, frame)) :
            LET name == engine[1]
                node == NodeOf(name)
                read == AttributesRead(name, node, frame, w.otcall, contours)
            IN
            /\ feedback' = w.feedback
            /\ object_tracking' = w.object_tracking
            /\ blob_tracking' = w.blob_tracking
            /\ last' = [op |-> "process", name |-> name, frame |-> frame,
                        raised |-> w.raised,
                        used |-> [p \in read |-> ReadAttribute(node, p)],
                        set |-> last.set]
            /\ UNCHANGED <<effects_enabled, engine, glow, rgb>>

ParamNext ==
    \/ UpdateFeedback
    \/ UpdateGlow
    \/ UpdateRgb
    \/ UpdateTrailLength
    \/ UpdateBlobMin
    \/ UpdateBlobMax
    \/ ParamProcess

SpecParams == ParamInit /\ [][ParamNext]_vars

\* --------------------------------------------------------------------
\* The fallback re-detection of ObjectTrackingNode.process on its own: a
\* fallback node that has just been initialized on a box, then process
\* calls whose re-detection finds nothing or one large contour whose box
\* lies 0, 99, 100 or 101 pixels (centre to centre) from the first box.
\* last keeps the node as the call found it, the contours the re-detection
\* saw, and whether the update succeeded.
BoxNear == <<99, 0, 10, 10>>
BoxAt == <<100, 0, 10, 10>>
BoxFar == <<101, 0, 10, 10>>
DistanceBoxes == {BoxA, BoxNear, BoxAt, BoxFar}

FallbackContours ==
    {<<>>}
    \cup {<<Contour(DetectAreaThreshold, BoxA)>>}
    \cup {<<Contour(DetectAreaThreshold + 1, b)>> : b \in DistanceBoxes}

ExceptFallback ==
    <<effects_enabled, engine, feedback, glow, rgb, blob_tracking>>

\* The node after the call that initialized tracking on BoxA.
FallbackInit ==
    /\ Constructed(FeedbackNodeInit(DefaultDecay),
                   GlowNodeInit(DefaultStrength, DefaultBlurSize),
                   RGBSplitNodeInit(DefaultShift),
                   LET d == AutoDetectObject(ObjectTrackingNodeInit(FALSE),
                                             <<Contour(DetectAreaThreshold + 1, BoxA)>>)
                   IN InitTracker(d.node, d.bbox, NoError, NoError).node,
                   BlobTrackingNodeInit(DefaultMinArea, DefaultMaxArea, TRUE, TRUE))
    /\ last = [op |-> "init"]

\* process(frame) on a valid frame with the node tracking in fallback mode.
FallbackTrack ==
    /\ object_tracking.tracker_initialized
    /\ ~object_tracking.use_contrib_tracker
    /\ \E frame \in Frames \ {f \in Frames : FrameInvalid(f)} :
         \E c \in FallbackContours :
            LET r == FinishTrack(frame, TRUE, "fallback",
                                 FallbackUpdate(object_tracking, c), "none", 1)
            IN /\ object_tracking' = r.node
               /\ last' = [op |-> "fallback.track", before |-> object_tracking,
                           seen |-> c, success |-> r.call.success,
                           drawn |-> r.frame # frame]
    /\ UNCHANGED ExceptFallback

SpecFallback == FallbackInit /\ [][FallbackTrack]_vars

\* --------------------------------------------------------------------
\* The drawing of the trail on its own: a trail of n points, n up to the
\* largest value the trail-length slider takes, and the loop
\* "for i in range(1, len(self.trail_points))" drawing one segment per
\* step.  last keeps n and the thicknesses of the segments drawn so far,
\* oldest first.
TrailSliderMax == 50

Max(a, b) == IF a > b THEN a ELSE b

\* thickness = max(1, int(2 * (i / len(self.trail_points)))).  i / n is a
\* float below 1 whose double is an integer only at i = n / 2, where the
\* division is exact, so int() cuts it to the integer quotient of 2 * i by n.
Thickness(i, n) == Max(1, (2 * i) \div n)

ExceptTrail ==
    <<effects_enabled, engine, feedback, glow, rgb, object_tracking, blob_tracking>>

TrailInit ==
    /\ Constructed(FeedbackNodeInit(DefaultDecay),
                   GlowNodeInit(DefaultStrength, DefaultBlurSize),
                   RGBSplitNodeInit(DefaultShift),
                   ObjectTrackingNodeInit(FALSE),
                   BlobTrackingNodeInit(DefaultMinArea, DefaultMaxArea, TRUE, TRUE))
    /\ \E n \in 0..TrailSliderMax : last = [op |-> "trail", n |-> n, thick |-> <<>>]

\* One pass of the loop: cv2.line(..., thickness) for segment i.
DrawLine ==
    /\ Len(last.thick) + 1 < last.n
    /\ last' = [op |-> "line", n |-> last.n,
                thick |-> Append(last.thick, Thickness(Len(last.thick) + 1, last.n))]
    /\ UNCHANGED ExceptTrail

SpecTrail == TrailInit /\ [][DrawLine]_vars

\* ====================================================================
\* Properties
\* ====================================================================
\* A frame that is None or has no pixels, read off the recorded frame.
InvalidFrame(f) == f.isNone \/ f.h = 0 \/ f.w = 0

\* Whether the process call recorded in l called the node, the frame it was
\* given, whether it returned, and the frame it returned.
Called(l, name) == \E i \in 1..Len(l.applied) : l.applied[i] = name
Pos(l, name) == CHOOSE i \in 1..Len(l.applied) : l.applied[i] = name
NodeIn(l, name) == l.io[Pos(l, name)]
Returned(l, name) == Called(l, name) /\ Len(l.io) > Pos(l, name)
NodeOut(l, name) == l.io[Pos(l, name) + 1]

\* C1: after any toggles, a process call on a valid frame applies exactly
\* the enabled nodes, once each, in the order feedback, glow, rgb_split,
\* object_tracking, blob_tracking, every node returns a frame to the next,
\* and the call returns the last node's output (the input when no node is
\* enabled).  Stated for valid frames and a feedback buffer built from valid
\* frames.
C1_ProcessAppliesEnabledNodes ==
    ( /\ last.op = "process"
      /\ ~InvalidFrame(last.io[1])
      /\ (feedback.buffer # NoBuffer => feedback.buffer[1] * feedback.buffer[2] > 0) )
    => /\ last.applied = SelectSeq(NodeOrder, LAMBDA n : effects_enabled[n])
       /\ last.raised = NoError
       /\ Len(last.io) = Len(last.applied) + 1
       /\ (last.applied = <<>> => last.io = <<last.io[1]>>)

\* C2: the trail never holds more points than the configured trail_length.
C2_TrailWithinLength ==
    Len(object_tracking.trail_points) <= object_tracking.trail_length

\* C3: right after ObjectTracking is toggled back on, the node is as
\* constructed: not initialized, no tracker, empty trail, and neither bbox
\* nor last_bbox holds a box from before the disablement.
C3_ReenableYieldsFreshNode ==
    (last.op = "toggle_object_tracking" /\ effects_enabled["object_tracking"])
    => /\ ~object_tracking.tracker_initialized
       /\ object_tracking.tracker = NoTracker
       /\ object_tracking.trail_points = <<>>
       /\ object_tracking.bbox = NoBox
       /\ object_tracking.last_bbox = NoBox

\* C4: when the controller disables ObjectTracking, the background model of
\* the node's auto-detector is discarded.
C4_DisableDiscardsBackgroundModel ==
    (last.op = "toggle_object_tracking" /\ ~effects_enabled["object_tracking"])
    => object_tracking.bg_subtractor = NoModel

\* C5: a disabled BlobTrackingNode holds no background model (disabling
\* discards it), and every process call of the node on a valid frame
\* applies a model and does not raise; when the node held no model on entry,
\* the call has created one, which has then absorbed exactly this frame.
C5_BlobModelDiscardedAndRecreated ==
    /\ [](~effects_enabled["blob_tracking"] => blob_tracking.bg_subtractor = NoModel)
    /\ [][ ( /\ last'.op = "process"
             /\ Called(last', "blob_tracking")
             /\ ~InvalidFrame(NodeIn(last', "blob_tracking")) )
           => /\ last'.blobcall.applied
              /\ last'.raised = NoError
              /\ blob_tracking'.bg_subtractor # NoModel
              /\ (blob_tracking.bg_subtractor = NoModel
                    => /\ last'.blobcall.created
                       /\ blob_tracking'.bg_subtractor = 1) ]_vars

\* The controller has just disabled BlobTracking while the node held a model.
C5_Witness ==
    /\ last.op = "toggle_blob_tracking"
    /\ last.reset
    /\ ~effects_enabled["blob_tracking"]

\* C6: after a process call in which the native tracker's update failed or
\* threw, the node is not initialized, holds no tracker and has an empty
\* trail; and a process call on a valid frame that finds the node not
\* initialized runs auto-detection.
C6_NativeFailureResets ==
    (last.op = "process" /\ last.otcall.called)
    => /\ (last.otcall.track = "native" /\ ~last.otcall.success)
            => /\ ~object_tracking.tracker_initialized
               /\ object_tracking.tracker = NoTracker
               /\ object_tracking.trail_points = <<>>
       /\ (~last.otcall.was_init /\ ~InvalidFrame(NodeIn(last, "object_tracking")))
            => last.otcall.applies >= 1

\* A node that was tracking natively on entry has lost its track in this call.
C6_Witness ==
    /\ last.op = "process"
    /\ last.otcall.track = "native"
    /\ last.otcall.was_init
    /\ ~last.otcall.success

\* A process call in fallback mode on a node that was tracking on entry and
\* whose re-detection found no candidate.
FallbackMiss(l) ==
    /\ l.op = "process"
    /\ l.otcall.track = "fallback"
    /\ l.otcall.was_init
    /\ ~l.otcall.success

\* C7 as stated: on a fallback miss the node stays initialized, the last
\* known box (last_bbox) is retained and the trail is unchanged.
C7_FallbackMissKeepsLastBox ==
    [][ FallbackMiss(last')
        => /\ object_tracking'.tracker_initialized
           /\ object_tracking'.last_bbox = object_tracking.last_bbox
           /\ object_tracking'.trail_points = object_tracking.trail_points ]_vars

\* C7 amended: on a fallback miss the node stays initialized, the current
\* box (bbox) is retained, last_bbox is reset to None, and the trail is
\* neither extended nor cleared.
C7_FallbackMissKeepsBox ==
    [][ FallbackMiss(last')
        => /\ object_tracking'.tracker_initialized
           /\ object_tracking'.bbox = object_tracking.bbox
           /\ object_tracking'.bbox # NoBox
           /\ object_tracking'.last_bbox = NoBox
           /\ object_tracking'.trail_points = object_tracking.trail_points ]_vars

\* A fallback miss on a node with a populated trail.
C7_Witness ==
    /\ FallbackMiss(last)
    /\ object_tracking.trail_points # <<>>
    /\ object_tracking.bbox # NoBox

C9_FeedbackBufferMatchesFrame ==
    ( /\ last.op = "process"
      /\ Called(last, "feedback")
      /\ ~InvalidFrame(last.io[1])
      /\ (feedback.buffer # NoBuffer => feedback.buffer[1] * feedback.buffer[2] > 0) )
    => /\ Returned(last, "feedback")
       /\ feedback.buffer = <<last.io[1].h, last.io[1].w>>

\* C10: a process call of ObjectTrackingNode or BlobTrackingNode on a None or
\* zero-size frame returns that frame and leaves every field of the node as
\* it was (no detection, no tracker update, no background model applied).
C10_InvalidFrameIsPassedThrough ==
    [][ last'.op = "process"
        => /\ ( Called(last', "object_tracking")
                /\ InvalidFrame(NodeIn(last', "object_tracking")) )
              => /\ Returned(last', "object_tracking")
                 /\ NodeOut(last', "object_tracking") = NodeIn(last', "object_tracking")
                 /\ object_tracking' = object_tracking
                 /\ last'.otcall.applies = 0
           /\ ( Called(last', "blob_tracking")
                /\ InvalidFrame(NodeIn(last', "blob_tracking")) )
              => /\ Returned(last', "blob_tracking")
                 /\ NodeOut(last', "blob_tracking") = NodeIn(last', "blob_tracking")
                 /\ blob_tracking' = blob_tracking
                 /\ ~last'.blobcall.applied ]_vars

\* Both tracking nodes were given an invalid frame while the object tracker
\* was tracking and the blob tracker held a background model.
C10_Witness ==
    /\ last.op = "process"
    /\ Called(last, "object_tracking")
    /\ Called(last, "blob_tracking")
    /\ InvalidFrame(NodeIn(last, "object_tracking"))
    /\ object_tracking.tracker_initialized
    /\ object_tracking.trail_points # <<>>
    /\ blob_tracking.bg_subtractor # NoModel


\* C11: GlowNode.process does not fail for any integer blur_size, even or
\* non-positive ones included: a process call on a valid frame raises
\* nothing.
C11_GlowTakesAnyBlurSize ==
    (last.op = "glow.process" /\ ~InvalidFrame(last.frame))
    => last.raised = NoError

\* The contours of the blob.process call in l, and whether the i-th lies
\* within the limits the node had at the call.
BlobSeen(l) == 1..Len(l.contours)
InLimits(l, i) ==
    /\ l.node.min_area <= l.contours[i].area
    /\ l.contours[i].area <= l.node.max_area

\* C12 as claimed: the contours a process call annotates are exactly those
\* with min_area <= area <= max_area under the limits current at the call.
C12_AnnotatedAreThoseInLimits ==
    last.op = "blob.process"
    => \A i \in BlobSeen(last) : (last.drawn[i] # {}) <=> InLimits(last, i)

\* C12, amended: a contour of nonzero area is annotated, with its box and
\* area label, exactly when min_area <= area <= max_area (both limits
\* inclusive) under the limits current at the call; a contour of zero area
\* within the limits gets an annotation only when show_contours is set; a
\* contour outside the limits gets none, and the call changes nothing of
\* the node but its background model.
C12_NonzeroAnnotatedAreThoseInLimits ==
    last.op = "blob.process"
    => /\ \A i \in BlobSeen(last) :
            /\ last.contours[i].area # 0
               => /\ (last.drawn[i] # {}) <=> InLimits(last, i)
                  /\ InLimits(last, i) => {"box", "label"} \subseteq last.drawn[i]
            /\ last.contours[i].area = 0
               => ((last.drawn[i] # {}) <=> (InLimits(last, i) /\ last.node.show_contours))
       /\ [blob_tracking EXCEPT !.bg_subtractor = NoModel]
          = [last.node EXCEPT !.bg_subtractor = NoModel]

\* A call saw a contour exactly at min_area and another exactly at
\* max_area, and drew the box of both.
C12_Witness ==
    /\ last.op = "blob.process"
    /\ \E i, j \in BlobSeen(last) :
          /\ last.contours[i].area = last.node.min_area
          /\ last.contours[j].area = last.node.max_area
          /\ i # j
          /\ "box" \in last.drawn[i] /\ "box" \in last.drawn[j]
    /\ last.node.min_area > 0

\* C13 as claimed: for an accepted contour whose zeroth moment is zero,
\* process does not raise and draws nothing, whatever show_contours,
\* show_centroids and min_area are.
C13_ZeroMomentDrawsNothing ==
    last.op = "blob.process"
    => /\ last.raised = NoError
       /\ \A i \in BlobSeen(last) :
            (InLimits(last, i) /\ last.contours[i].area = 0) => last.drawn[i] = {}

\* C13, amended: for an accepted contour whose zeroth moment is zero,
\* process does not raise and draws no centroid, no bounding box and no
\* area label; the outline is drawn exactly when show_contours is set.
C13_ZeroMomentDrawsOutlineOnly ==
    last.op = "blob.process"
    => /\ last.raised = NoError
       /\ \A i \in BlobSeen(last) :
            (InLimits(last, i) /\ last.contours[i].area = 0)
            => last.drawn[i] = IF last.node.show_contours THEN {"contour"} ELSE {}

\* A call accepted a contour of zero area with show_contours and
\* show_centroids set, and drew its outline only.
C13_Witness ==
    /\ last.op = "blob.process"
    /\ last.raised = NoError
    /\ \E i \in BlobSeen(last) :
          /\ InLimits(last, i) /\ last.contours[i].area = 0
          /\ last.node.show_contours /\ last.node.show_centroids
          /\ last.drawn[i] = {"contour"}

\* C14: use_contrib_tracker is set at construction and no process call,
\* init_tracker call or toggle changes it; a node whose native tracker is
\* unavailable never holds a tracker instance.
C14_TrackingModeIsFixed ==
    /\ [](~object_tracking.use_contrib_tracker => object_tracking.tracker = NoTracker)
    /\ [][object_tracking'.use_contrib_tracker = object_tracking.use_contrib_tracker]_vars

\* A process call initialized a node in fallback mode (init_tracker ran)
\* and tracked with it.
C14_Witness ==
    /\ last.op = "process"
    /\ last.otcall.called /\ ~last.otcall.was_init
    /\ last.otcall.track = "fallback"
    /\ ~object_tracking.use_contrib_tracker
    /\ object_tracking.tracker_initialized
    /\ object_tracking.tracker = NoTracker

C16_ReenabledFeedbackStartsEmpty ==
    [][ (~effects_enabled["feedback"] /\ effects_enabled'["feedback"])
        => feedback'.buffer = NoBuffer ]_vars

\* Height and width of a frame given as planes, and the value of a plane
\* at row y, column x, both counted from 0.
Height(F) == Len(F.g)
Width(F) == Len(F.g[1])
At(plane, y, x) == plane[y + 1][x + 1]

\* C17: RGBSplitNode with shift = 0 returns a frame equal to the input in
\* every pixel and channel.
C17_ZeroShiftIsIdentity ==
    (last.op = "rgb.process" /\ rgb.shift = 0)
    => \A y \in 0..(Height(last.frame) - 1), x \in 0..(Width(last.frame) - 1) :
         /\ At(last.out.b, y, x) = At(last.frame.b, y, x)
         /\ At(last.out.g, y, x) = At(last.frame.g, y, x)
         /\ At(last.out.r, y, x) = At(last.frame.r, y, x)

\* A call with shift 0 on a frame of MaxDim rows and columns whose pixels
\* all differ.
C17_Witness ==
    /\ last.op = "rgb.process"
    /\ rgb.shift = 0
    /\ last.frame = [b |-> CountingPlane(MaxDim, MaxDim, 0),
                     g |-> CountingPlane(MaxDim, MaxDim, 100),
                     r |-> CountingPlane(MaxDim, MaxDim, 200)]
    /\ last.out = last.frame

\* C18: for an H x W frame F and shift s >= 0 the output O has the green
\* channel of F, red of O at (y, x) is red of F at (y, (x - s) mod W), and
\* blue of O at (y, x) is blue of F at ((y + s) mod H, x).
C18_ChannelsAreRolled ==
    last.op = "rgb.process"
    => LET F == last.frame
           O == last.out
           s == rgb.shift
           H == Height(F)
           W == Width(F)
       IN /\ Height(O) = H /\ Width(O) = W
          /\ \A y \in 0..(H - 1), x \in 0..(W - 1) :
               /\ At(O.g, y, x) = At(F.g, y, x)
               /\ At(O.r, y, x) = At(F.r, y, (x - s) % W)
               /\ At(O.b, y, x) = At(F.b, (y + s) % H, x)

\* A call whose shift is no multiple of the height or the width, on a
\* frame whose pixels all differ: red and blue have moved.
C18_Witness ==
    /\ last.op = "rgb.process"
    /\ rgb.shift % Height(last.frame) # 0
    /\ rgb.shift % Width(last.frame) # 0
    /\ rgb.shift > Width(last.frame)
    /\ last.frame.r = CountingPlane(Height(last.frame), Width(last.frame), 200)
    /\ last.frame.b = CountingPlane(Height(last.frame), Width(last.frame), 0)
    /\ last.out.r # last.frame.r
    /\ last.out.b # last.frame.b

\* C19: a frame of one colour C is a fixed point of the FeedbackNode: once
\* the accumulator equals C, a call on such a frame leaves the accumulator
\* at C and returns C exactly, for any decay in (0, 1).
C19_ConstantFrameIsFixedPoint ==
    (last.op = "feedback.process" /\ last.before = F32FromInt(last.color))
    => /\ last.out = last.color
       /\ feedback.buffer = last.before

\* The contours of area above 500 among those the auto-detection of the
\* call in l saw.
LargeSeen(l) == {i \in 1..Len(l.detect.seen) : l.detect.seen[i].area > 500}

\* C20: a process call on a valid frame that finds the node Uninitialized
\* leaves it Uninitialized and returns the frame as it came, the trail
\* untouched, unless auto-detection finds a contour of area strictly above
\* 500; when there is one, the box used is the bounding box of a contour of
\* the largest area; and the node is initialized after the call only if
\* there was one and, in native mode, tracker initialization did not fail.
C20_UninitializedUntilDetection ==
    ( /\ last.op = "tracking.process"
      /\ ~InvalidFrame(last.frame)
      /\ ~last.before.tracker_initialized )
    => /\ last.detect.ran
       /\ LargeSeen(last) = {}
          => /\ ~object_tracking.tracker_initialized
             /\ last.raised = NoError
             /\ last.out = last.frame
             /\ object_tracking.trail_points = last.before.trail_points
             /\ last.detect.detected = NoBox
       /\ LargeSeen(last) # {}
          => \E i \in LargeSeen(last) :
               /\ \A j \in 1..Len(last.detect.seen) :
                    last.detect.seen[j].area <= last.detect.seen[i].area
               /\ last.detect.detected = last.detect.seen[i].box
       /\ object_tracking.tracker_initialized
          => /\ LargeSeen(last) # {}
             /\ object_tracking.use_contrib_tracker
                => /\ last.call.err = "none"
                   /\ object_tracking.tracker # NoTracker

\* A call found a native-mode node Uninitialized, saw two contours above
\* 500 with the smaller one first, took the box of the larger, and left
\* the node initialized.
C20_Witness ==
    /\ last.op = "tracking.process"
    /\ ~last.before.tracker_initialized
    /\ Len(last.detect.seen) = 2
    /\ LargeSeen(last) = {1, 2}
    /\ last.detect.seen[1].area < last.detect.seen[2].area
    /\ last.detect.detected = last.detect.seen[2].box
    /\ object_tracking.tracker_initialized
    /\ object_tracking.use_contrib_tracker

\* The squared distance between the centres of two boxes.
CentreDistance2(a, b) ==
    (Center(a)[1] - Center(b)[1]) * (Center(a)[1] - Center(b)[1])
    + (Center(a)[2] - Center(b)[2]) * (Center(a)[2] - Center(b)[2])

\* The re-detection of the recorded call returned a box: there is a
\* contour and the (single) contour seen is larger than 500.
Redetected(l) == l.seen # <<>> /\ l.seen[1].area > 500

\* C21: in fallback mode, whenever the re-detection of a process call on a
\* tracking node returns a box, the update succeeds and both the current
\* box and the last accepted box become that box, whatever its distance
\* from the previous accepted box and also when there is no previous box.
C21_AnyDetectionIsAccepted ==
    (last.op = "fallback.track" /\ Redetected(last))
       => /\ last.success
          /\ object_tracking.bbox = last.seen[1].box
          /\ object_tracking.last_bbox = last.seen[1].box

\* A re-detection exactly 100 pixels from the previous accepted box was
\* accepted.
C21_Witness ==
    /\ last.op = "fallback.track"
    /\ Redetected(last)
    /\ last.before.last_bbox # NoBox
    /\ CentreDistance2(last.before.last_bbox, last.seen[1].box) = 100 * 100
    /\ last.success
    /\ object_tracking.last_bbox = last.seen[1].box

\* s is a contiguous suffix of t, in the same order.
IsSuffix(s, t) ==
    /\ Len(s) <= Len(t)
    /\ \A i \in 1..Len(s) : s[i] = t[Len(t) - Len(s) + i]

\* C22: with the trail shown, trail_points is at every state a contiguous
\* suffix, in arrival order, of the centres of the successful updates since
\* the trail was last cleared; a successful update puts exactly one centre
\* at the newest end and removes nothing but the oldest point, and a call
\* without a successful update adds nothing.
C22_TrailIsFifoOfCentres ==
    /\ [](object_tracking.show_trail
            => IsSuffix(object_tracking.trail_points, last.hist))
    /\ [][last'.op = "tracking.process"
            => IF last'.call.success
               THEN LET t == Append(object_tracking.trail_points,
                                    Center(object_tracking'.bbox))
                    IN object_tracking'.trail_points \in {t, Tail(t)}
               ELSE object_tracking'.trail_points
                       \in {object_tracking.trail_points, <<>>}]_vars

\* A successful update found the trail full: the oldest point left, and the
\* new centre, different from the one before it, stands at the newest end.
C22_Witness ==
    /\ last.op = "tracking.process"
    /\ last.call.success
    /\ Len(last.before.trail_points) = MaxTrailLength
    /\ Len(object_tracking.trail_points) = MaxTrailLength
    /\ object_tracking.trail_points
          = Tail(Append(last.before.trail_points, Center(object_tracking.bbox)))
    /\ object_tracking.trail_points[MaxTrailLength]
          # last.before.trail_points[MaxTrailLength]

\* C23: once the trail of n points is drawn, the thickness of segment i
\* (1 <= i < n) never decreases with i, and on the longest trail the
\* newest segment is strictly thicker than the oldest.
C23_ThicknessGrowsAlongTrail ==
    (last.op = "line" /\ Len(last.thick) = last.n - 1)
       => /\ \A i \in 1..(last.n - 2) : last.thick[i] <= last.thick[i + 1]
          /\ last.n = TrailSliderMax => last.thick[last.n - 1] > last.thick[1]

\* C24: in native mode, at every state between process calls and toggles,
\* tracker_initialized is true exactly when a tracker instance is held; and
\* no process call on a native-mode node takes the fallback re-detection
\* branch.
C24_NativeInitializedIffTrackerHeld ==
    object_tracking.use_contrib_tracker
       => /\ object_tracking.tracker_initialized
                <=> object_tracking.tracker # NoTracker
          /\ last.op = "process" => last.otcall.track # "fallback"

\* A native-mode node that holds a tracker has just updated it with success.
C24_Witness ==
    /\ object_tracking.use_contrib_tracker
    /\ object_tracking.tracker_initialized
    /\ object_tracking.tracker # NoTracker
    /\ last.op = "process"
    /\ last.otcall.was_init
    /\ last.otcall.track = "native"
    /\ last.otcall.success

\* C25: an engine.process call changes no state of a node that is disabled,
\* whichever node it is; and a disabled ObjectTrackingNode is Uninitialized
\* with an empty trail at every state, however many frames are processed.
C25_DisabledNodeIsUntouched ==
    /\ [](~effects_enabled["object_tracking"]
            => /\ ~object_tracking.tracker_initialized
               /\ object_tracking.trail_points = <<>>)
    /\ [][last'.op = "process"
            => /\ ~effects_enabled["feedback"] => feedback' = feedback
               /\ ~effects_enabled["glow"] => glow' = glow
               /\ ~effects_enabled["rgb_split"] => rgb' = rgb
               /\ ~effects_enabled["object_tracking"]
                     => object_tracking' = object_tracking
               /\ ~effects_enabled["blob_tracking"]
                     => blob_tracking' = blob_tracking]_vars

\* A valid frame went through the engine while the feedback node, holding
\* a buffer, and the object tracking node, used before, were disabled.
C25_Witness ==
    /\ last.op = "process"
    /\ last.raised = NoError
    /\ Len(last.applied) > 0
    /\ ~effects_enabled["feedback"]
    /\ feedback.buffer # NoBuffer
    /\ ~effects_enabled["object_tracking"]
    /\ object_tracking.bbox # NoBox
    /\ ~effects_enabled["blob_tracking"]

\* C26: a process call of the tracking node on a valid frame applies the
\* background model to that frame at most once, whatever the state and
\* the mode of the node.
C26_BackgroundModelAppliedAtMostOnce ==
    (last.op = "tracking.process" /\ last.call.called)
       => last.call.applies <= 1

====
